---- MODULE Spec2Model ----
(***************************************************************************)
(* gh2mg: a gateway between GitHub issue comments and Mailgun e-mails.     *)
(* The model follows src/main.go: the two webhook handlers, the identity   *)
(* cache, the address extraction from the issue body and the key/value     *)
(* store that is meant to correlate message ids with issue numbers.        *)
(***************************************************************************)
EXTENDS Integers, Sequences, FiniteSets, TLC

(***************************************************************************)
(* Bounds of the model.                                                    *)
(***************************************************************************)
\* issue numbers that the tracker events carry: 1..MaxIssue
MaxIssue == 2
\* an issue body of the extraction specification is made of at most MaxChunks fragments
MaxChunks == 5
\* requests that the server handles at the same time in the race specification
MaxHandlers == 2

(***************************************************************************)
(* Strings are sequences of one-character strings, so that strings.Index   *)
(* and Go's slice expressions can be computed the way the code does.       *)
(***************************************************************************)
\* the literal "<a href=\"mailto:'" of extractEmailFromIssue
Marker == <<"<", "a", " ", "h", "r", "e", "f", "=", "\"", "m", "a", "i", "l", "t", "o", ":", "'">>
\* the literal "</a>"
CloseTag == <<"<", "/", "a", ">">>
\* the literal "'"
Quote == <<"'">>

\* s[lo:hi] of Go is defined (does not panic) iff 0 <= lo <= hi <= len(s)
SliceOK(s, lo, hi) == 0 <= lo /\ lo <= hi /\ hi <= Len(s)

\* s[lo:hi] of Go, on 0-based offsets
Slice(s, lo, hi) == SubSeq(s, lo + 1, hi)

\* does sub occur in s at the 0-based offset i
OccursAt(s, sub, i) == i + Len(sub) <= Len(s) /\ SubSeq(s, i + 1, i + Len(sub)) = sub

\* strings.Index: the offset of the first occurrence of sub in s, -1 when there is none
Index(s, sub) ==
  LET hits == {i \in 0..Len(s) : OccursAt(s, sub, i)}
  IN  IF hits = {} THEN -1 ELSE CHOOSE i \in hits : \A j \in hits : i <= j

\* the outcome of a run-time panic inside extractEmailFromIssue
ExtractPanic == [ok |-> FALSE, email |-> <<>>]

\* a plausible slip: the marker's length is taken one short, so the slice starts at its quote
extractEmailFromIssue_OffByOne(body) ==
  LET start == Index(body, Marker) + Len(Marker) - 1
  IN  IF ~SliceOK(body, start, Len(body)) THEN ExtractPanic
      ELSE LET body_email_start == Slice(body, start, Len(body))
               email_end == Index(body_email_start, CloseTag)
           IN  IF ~SliceOK(body_email_start, 0, email_end) THEN ExtractPanic
               ELSE LET html_email == Slice(body_email_start, 0, email_end)
                        q == Index(html_email, Quote)
                    IN  IF ~SliceOK(html_email, 0, q) THEN ExtractPanic
                        ELSE [ok |-> TRUE, email |-> Slice(html_email, 0, q)]

\* extractEmailFromIssue: three unchecked slices; each one panics when its index is
\* out of range (strings.Index returned -1, or the body is shorter than 16 bytes)
extractEmailFromIssue(body) ==
  LET start == Index(body, Marker) + Len(Marker)
  IN  IF ~SliceOK(body, start, Len(body)) THEN ExtractPanic
      ELSE LET body_email_start == Slice(body, start, Len(body))
               email_end == Index(body_email_start, CloseTag)
           IN  IF ~SliceOK(body_email_start, 0, email_end) THEN ExtractPanic
               ELSE LET html_email == Slice(body_email_start, 0, email_end)
                        q == Index(html_email, Quote)
                    IN  IF ~SliceOK(html_email, 0, q) THEN ExtractPanic
                        ELSE [ok |-> TRUE, email |-> Slice(html_email, 0, q)]

(***************************************************************************)
(* Issue bodies.                                                           *)
(***************************************************************************)
\* a contact address as the issue template writes it
Addr == <<"a", "@", "b">>
\* sixteen bytes of other text: one byte less than the marker is long
Pad == <<"x", "x", "x", "x", "x", "x", "x", "x", "x", "x", "x", "x", "x", "x", "x", "x">>
\* the fragments the bodies of the extraction specification are made of
Chunks == {Marker, CloseTag, Quote, Addr, Pad}

RECURSIVE BodiesUpTo(_)
\* all concatenations of at most n fragments
BodiesUpTo(n) ==
  IF n = 0 THEN {<<>>}
  ELSE LET shorter == BodiesUpTo(n - 1)
       IN  shorter \cup {b \o c : b \in shorter, c \in Chunks}

\* the issue bodies extractEmailFromIssue is tried on
Bodies == BodiesUpTo(MaxChunks)

\* the template's contact block: <a href="mailto:'a@b'">...</a>
BodyGood == Marker \o Addr \o Quote \o CloseTag
\* no marker, shorter than the marker
BodyShort == <<"h", "i">>
\* no marker, but long enough for body[16:] to exist, with a quote and a closing tag in it
BodyLong == Pad \o <<"z">> \o Quote \o CloseTag
\* the marker and a closing tag, with no quote in between
BodyNoQuote == Marker \o Addr \o CloseTag
\* the issue bodies the tracker events of the gateway specification carry, by name
EventBodies == {"good", "short", "long", "noquote"}
\* the text of a named issue body
BodyText(b) ==
  CASE b = "good" -> BodyGood
    [] b = "short" -> BodyShort
    [] b = "long" -> BodyLong
    [] b = "noquote" -> BodyNoQuote
    [] OTHER -> <<>>
\* extractEmailFromIssue on each named issue body
ExtractOf == [b \in EventBodies |-> extractEmailFromIssue(BodyText(b))]

(***************************************************************************)
(* The gateway: what the webhooks carry and what the outside world answers. *)
(***************************************************************************)
\* the message ids Mailgun returns; they are the keys of the key/value store
MsgIds == {"m1", "m2"}
\* the issue numbers of the tracker events
Issues == 1..MaxIssue
\* GitHub logins of comment authors
Logins == {"alice", "bob"}
\* the display names GitHub knows
Names == {"Alice A."}
\* a form field that the request does not carry (PostForm[...] is nil)
Missing == "<missing>"
\* Users.Get returned an error
IdErr == "<error>"
\* Users.Get returned a user whose Name is nil
IdNoName == "<no name>"
\* mg.Send returned an error
SendErr == "<error>"
\* what Users.Get can answer
IdOutcomes == Names \cup {IdErr, IdNoName}
\* what mg.Send can answer: an id (possibly empty) or an error
SendOutcomes == MsgIds \cup {"", SendErr}
\* the contents a key/value file can have: message id -> issue number
Stores == UNION {[D -> Issues] : D \in SUBSET MsgIds}
\* the empty mapping (an empty cache, an empty store)
Empty == [x \in {} |-> 0]

\* a request, of either webhook; the fields a webhook does not have keep their defaults
Req(kind, method, event, ctypeJson, readOk, jsonOk, action, login, number, body, formOk, from, html, irt) ==
  [kind |-> kind, method |-> method, event |-> event, ctypeJson |-> ctypeJson,
   readOk |-> readOk, jsonOk |-> jsonOk, action |-> action, login |-> login,
   number |-> number, body |-> body, formOk |-> formOk, from |-> from,
   html |-> html, irt |-> irt]

\* a request to /github
GhReq(method, event, ctypeJson, readOk, jsonOk, action, login, number, body) ==
  Req("github", method, event, ctypeJson, readOk, jsonOk, action, login, number, body,
      TRUE, Missing, Missing, Missing)

\* a request to /mailgun
MgReq(method, formOk, from, html, irt) ==
  Req("mailgun", method, "", FALSE, TRUE, TRUE, "", "", 0, "", formOk, from, html, irt)

\* the requests /github is tried on; a field is varied only where the handler reads it
GithubRequests ==
  {GhReq("GET", "", FALSE, TRUE, TRUE, "", "", 0, "")}
  \cup {GhReq("POST", e, FALSE, TRUE, TRUE, "", "", 0, "") : e \in {"ping", "push"}}
  \cup {GhReq("POST", "issue_comment", FALSE, TRUE, TRUE, "", "", 0, "")}
  \cup {GhReq("POST", "issue_comment", TRUE, FALSE, TRUE, "", "", 0, "")}
  \cup {GhReq("POST", "issue_comment", TRUE, TRUE, FALSE, "", "", 0, "")}
  \cup {GhReq("POST", "issue_comment", TRUE, TRUE, TRUE, a, "alice", 1, "good") :
          a \in {"edited", "deleted"}}
  \cup {GhReq("POST", "issue_comment", TRUE, TRUE, TRUE, "created", l, n, b) :
          l \in Logins, n \in Issues, b \in EventBodies}

\* the requests /mailgun is tried on
MailgunRequests ==
  {MgReq("GET", TRUE, Missing, Missing, Missing)}
  \cup {MgReq("POST", FALSE, Missing, Missing, Missing)}
  \cup {MgReq("POST", TRUE, f, h, i) :
          f \in {Missing, "", "a@x.org"}, h \in {Missing, "", "hi"},
          i \in {Missing, ""} \cup MsgIds}

\* no request has been handled yet
NoReq == Req("none", "", "", FALSE, TRUE, TRUE, "", "", 0, "", TRUE, Missing, Missing, Missing)

VARIABLES
  running,   \* the process is alive (log.Fatal has not ended it)
  dryrun,    \* the global dryrun, set from the --dryrun flag
  kv,        \* the global kv *rkv.Rkv: "nil" or "open"
  db,        \* the contents of the key/value file main opened: message id -> issue number
  gh_cache,  \* the global gh_cache: login -> display name, unexpired entries only
  last,      \* the last request handled: what it was, what it called, how it ended
  putHist,   \* per key that was absent when a handler called kv.Put for it: the value of
             \* that first call, and whether kv.Put was called for the key again
  inflight,  \* race specification: per handler goroutine, where it is at the store
  xbody,     \* extraction specification: the issue body
  xres,      \* extraction specification: what extractEmailFromIssue gave
  xdone      \* extraction specification: extractEmailFromIssue has been called

gvars == <<running, dryrun, kv, db, gh_cache, last, putHist>>
xvars == <<xbody, xres, xdone>>
vars == <<running, dryrun, kv, db, gh_cache, last, putHist, inflight, xbody, xres, xdone>>

\* the goroutines net/http runs the handlers in
Handlers == 1..MaxHandlers
\* a goroutine that handles no request
Idle == [pc |-> "idle", op |-> "none", key |-> "", value |-> 0, got |-> 0]
\* no request is in flight
NoneInFlight == [h \in Handlers |-> Idle]

(***************************************************************************)
(* The collaborators, as the handlers use them.                            *)
(***************************************************************************)
\* what a handler has done so far: nothing
Quiet ==
  [term |-> "return", status |-> 0, lookups |-> <<>>, sent |-> <<>>, issueGets |-> <<>>,
   comments |-> <<>>, puts |-> <<>>, nilKv |-> FALSE]

\* a plausible slip: Put works without an opened handle and stores a fixed issue number
kvPut_FixedIssue(handle, store, key, value) ==
  [ok |-> TRUE,
   store |-> [k \in DOMAIN store \cup {key} |-> IF k = key THEN 1 ELSE store[k]]]

\* (*Rkv).Put: a method call through a nil handle panics; an open store takes the
\* value for the key, whether or not the key is there already
kvPut(handle, store, key, value) ==
  IF handle = "nil" THEN [ok |-> FALSE, store |-> store]
  ELSE [ok |-> TRUE,
        store |-> [k \in DOMAIN store \cup {key} |-> IF k = key THEN value ELSE store[k]]]

\* (*Rkv).GetKeys("", -1): a method call through a nil handle panics
kvGetKeys(handle, store) ==
  IF handle = "nil" THEN [ok |-> FALSE, keys |-> {}]
  ELSE [ok |-> TRUE, keys |-> DOMAIN store]

\* a plausible slip: the name Users.Get gave is returned but not put into the cache
getNameForUser_NoCacheSet(username, cache, idOut) ==
  IF username \in DOMAIN cache
  THEN [term |-> "return", name |-> cache[username], lookups |-> <<>>, cache |-> cache]
  ELSE IF idOut = IdErr
  THEN [term |-> "exit", name |-> "", lookups |-> <<[login |-> username, answer |-> idOut]>>,
        cache |-> cache]
  ELSE IF idOut = IdNoName
  THEN [term |-> "panic", name |-> "", lookups |-> <<[login |-> username, answer |-> idOut]>>,
        cache |-> cache]
  ELSE [term |-> "return", name |-> idOut,
        lookups |-> <<[login |-> username, answer |-> idOut]>>, cache |-> cache]

\* getNameForUser: the cached name, or one Users.Get whose answer is idOut;
\* an error ends the process (log.Fatal), a nil user.Name panics at *user.Name
getNameForUser(username, cache, idOut) ==
  IF username \in DOMAIN cache
  THEN [term |-> "return", name |-> cache[username], lookups |-> <<>>, cache |-> cache]
  ELSE IF idOut = IdErr
  THEN [term |-> "exit", name |-> "", lookups |-> <<[login |-> username, answer |-> idOut]>>,
        cache |-> cache]
  ELSE IF idOut = IdNoName
  THEN [term |-> "panic", name |-> "", lookups |-> <<[login |-> username, answer |-> idOut]>>,
        cache |-> cache]
  ELSE [term |-> "return", name |-> idOut,
        lookups |-> <<[login |-> username, answer |-> idOut]>>,
        cache |-> [l \in DOMAIN cache \cup {username} |->
                     IF l = username THEN idOut ELSE cache[l]]]

\* a plausible slip: a failed mg.Send is tried once more before giving up
commentToEmail_Retry(dry, author, reply_to, sendOut) ==
  IF dry THEN [term |-> "return", id |-> "", sent |-> <<>>]
  ELSE LET message == [from |-> author, to |-> reply_to, answer |-> sendOut]
       IN  IF sendOut = SendErr
           THEN [term |-> "exit", id |-> "", sent |-> <<message, message>>]
           ELSE [term |-> "return", id |-> sendOut, sent |-> <<message>>]

\* commentToEmail: nothing in dry-run; otherwise one mg.Send whose answer is sendOut;
\* an error ends the process (log.Fatal)
commentToEmail(dry, author, reply_to, sendOut) ==
  IF dry THEN [term |-> "return", id |-> "", sent |-> <<>>]
  ELSE LET message == [from |-> author, to |-> reply_to, answer |-> sendOut]
       IN  IF sendOut = SendErr
           THEN [term |-> "exit", id |-> "", sent |-> <<message>>]
           ELSE [term |-> "return", id |-> sendOut, sent |-> <<message>>]

\* the issue number emailToComment comments on: the lookup is commented out
issueNum == 1

\* emailToComment: lists the store through the global handle, then reads issue
\* issueNum and, unless in dry-run, comments on it; errors of the two tracker
\* calls are logged only. iterOk: kv.Get succeeds for every key
emailToComment(dry, handle, store, comment, in_reply_to, iterOk) ==
  LET keys == kvGetKeys(handle, store)
  IN  IF ~keys.ok THEN [Quiet EXCEPT !.term = "panic", !.nilKv = TRUE]
      ELSE IF keys.keys # {} /\ ~iterOk THEN [Quiet EXCEPT !.term = "exit"]
      ELSE IF dry THEN [Quiet EXCEPT !.issueGets = <<issueNum>>]
      ELSE [Quiet EXCEPT !.issueGets = <<issueNum>>,
                         !.comments = <<[issue |-> issueNum, body |-> comment]>>]

(***************************************************************************)
(* The two handlers. A panic in a handler is recovered by net/http: the    *)
(* connection is dropped without a response and the server goes on. A      *)
(* log.Fatal ends the process.                                             *)
(***************************************************************************)
\* the handler wrote a response with this status
Resp(status) == [Quiet EXCEPT !.term = "responded", !.status = status]

\* a handler's outcome together with the cache and the store it leaves
Out(q, cache, store) == q @@ [cache |-> cache, store |-> store]

\* a plausible slip: only edits are taken for comments that are not new
IsIgnoredAction_EditedOnly(action) == action = "edited"

\* comment.Action != "created"
IsIgnoredAction(action) == action # "created"

\* githubWebHook from the call of commentToEmail on: author and reply_to are there
githubDeliver(dry, handle, store, cache, req, lookups, author, reply_to, sendOut) ==
  LET c == commentToEmail(dry, author, reply_to, sendOut)
      sofar == [Quiet EXCEPT !.lookups = lookups, !.sent = c.sent]
  IN  IF c.term = "exit" THEN Out([sofar EXCEPT !.term = "exit"], cache, store)
      ELSE IF dry THEN Out([sofar EXCEPT !.term = "responded", !.status = 200], cache, store)
      ELSE IF c.id = ""
      THEN Out([sofar EXCEPT !.term = "responded", !.status = 200], cache, store)
      ELSE LET p == kvPut(handle, store, c.id, req.number)
               put == [sofar EXCEPT !.puts = <<[key |-> c.id, value |-> req.number]>>]
           IN  IF ~p.ok
               THEN Out([put EXCEPT !.term = "panic", !.nilKv = TRUE], cache, store)
               ELSE Out([put EXCEPT !.term = "responded", !.status = 200], cache, p.store)

\* a plausible slip: the test of X-GitHub-Event for "issue_comment" is left out
githubWebHook_NoEventCheck(dry, handle, store, cache, req, idOut, sendOut) ==
  IF req.method # "POST" THEN Out(Resp(405), cache, store)
  ELSE IF req.event = "ping" THEN Out(Resp(200), cache, store)
  ELSE IF ~req.ctypeJson THEN Out(Resp(406), cache, store)
  ELSE IF ~req.readOk THEN Out(Resp(500), cache, store)
  ELSE IF ~req.jsonOk THEN Out(Resp(500), cache, store)
  ELSE IF IsIgnoredAction(req.action) THEN Out(Resp(200), cache, store)
  ELSE LET n == getNameForUser(req.login, cache, idOut)
       IN  IF n.term # "return"
           THEN Out([Quiet EXCEPT !.term = n.term, !.lookups = n.lookups], n.cache, store)
           ELSE LET e == ExtractOf[req.body]
                IN  IF ~e.ok
                    THEN Out([Quiet EXCEPT !.term = "panic", !.lookups = n.lookups],
                             n.cache, store)
                    ELSE githubDeliver(dry, handle, store, n.cache, req, n.lookups,
                                       n.name, e.email, sendOut)

\* githubWebHook: the checks of the request, then getNameForUser,
\* extractEmailFromIssue, commentToEmail (in this order) and kv.Put
githubWebHook(dry, handle, store, cache, req, idOut, sendOut) ==
  IF req.method # "POST" THEN Out(Resp(405), cache, store)
  ELSE IF req.event = "ping" THEN Out(Resp(200), cache, store)
  ELSE IF req.event # "issue_comment" THEN Out(Resp(400), cache, store)
  ELSE IF ~req.ctypeJson THEN Out(Resp(406), cache, store)
  ELSE IF ~req.readOk THEN Out(Resp(500), cache, store)
  ELSE IF ~req.jsonOk THEN Out(Resp(500), cache, store)
  ELSE IF IsIgnoredAction(req.action) THEN Out(Resp(200), cache, store)
  ELSE LET n == getNameForUser(req.login, cache, idOut)
       IN  IF n.term # "return"
           THEN Out([Quiet EXCEPT !.term = n.term, !.lookups = n.lookups], n.cache, store)
           ELSE LET e == ExtractOf[req.body]
                IN  IF ~e.ok
                    THEN Out([Quiet EXCEPT !.term = "panic", !.lookups = n.lookups],
                             n.cache, store)
                    ELSE githubDeliver(dry, handle, store, n.cache, req, n.lookups,
                                       n.name, e.email, sendOut)

\* a plausible slip: the test of the request method is left out
mailgunWebHook_NoMethodCheck(dry, handle, store, cache, req, iterOk) ==
  IF ~req.formOk THEN Out(Resp(500), cache, store)
  ELSE IF req.from = Missing \/ req.html = Missing \/ req.irt = Missing
  THEN Out([Quiet EXCEPT !.term = "panic"], cache, store)
  ELSE LET comment == [from |-> req.from, html |-> req.html]
           r == emailToComment(dry, handle, store, comment, req.irt, iterOk)
       IN  IF r.term = "return"
           THEN Out([r EXCEPT !.term = "responded", !.status = 200], cache, store)
           ELSE Out(r, cache, store)

\* mailgunWebHook: from[0], html_body[0] and in_reply_to[0] panic on a field that
\* is not there; an empty field is taken as it is
mailgunWebHook(dry, handle, store, cache, req, iterOk) ==
  IF req.method # "POST" THEN Out(Resp(405), cache, store)
  ELSE IF ~req.formOk THEN Out(Resp(500), cache, store)
  ELSE IF req.from = Missing \/ req.html = Missing \/ req.irt = Missing
  THEN Out([Quiet EXCEPT !.term = "panic"], cache, store)
  ELSE LET comment == [from |-> req.from, html |-> req.html]
           r == emailToComment(dry, handle, store, comment, req.irt, iterOk)
       IN  IF r.term = "return"
           THEN Out([r EXCEPT !.term = "responded", !.status = 200], cache, store)
           ELSE Out(r, cache, store)

(***************************************************************************)
(* The gateway as a state machine.                                         *)
(***************************************************************************)
\* after main has set the globals and started to listen: the package-level kv is
\* still nil, because main's "kv, err := rkv.NewSafe(...)" declares a local kv
Init ==
  /\ running = TRUE
  /\ dryrun \in BOOLEAN
  /\ kv = "nil"
  /\ db \in Stores
  /\ gh_cache = Empty
  /\ last = [Quiet EXCEPT !.term = "none"] @@ [req |-> NoReq]
  /\ putHist = Empty
  /\ inflight = NoneInFlight
  /\ xbody = <<>> /\ xres = ExtractPanic /\ xdone = FALSE

\* the answers of Users.Get that matter to this request
IdOutcomesFor(req) ==
  IF req.login \in Logins \ DOMAIN gh_cache THEN IdOutcomes ELSE {IdErr}

\* the answers of mg.Send that matter to this request
SendOutcomesFor(req) ==
  IF req.body \in EventBodies /\ ~dryrun /\ ExtractOf[req.body].ok
  THEN SendOutcomes ELSE {SendErr}

\* the state a handler leaves: its record, the cache, the store, the process
HandlerDone(req, r) ==
  /\ last' = [term |-> r.term, status |-> r.status, lookups |-> r.lookups,
              sent |-> r.sent, issueGets |-> r.issueGets, comments |-> r.comments,
              puts |-> r.puts, nilKv |-> r.nilKv, req |-> req]
  /\ running' = (r.term # "exit")
  /\ gh_cache' = IF r.term = "exit" THEN Empty ELSE r.cache
  /\ db' = r.store
  /\ LET issued == {r.puts[i] : i \in DOMAIN r.puts}
         fresh == {p \in issued : p.key \notin DOMAIN db /\ p.key \notin DOMAIN putHist}
     IN  putHist' = [k \in DOMAIN putHist \cup {p.key : p \in fresh} |->
                       IF k \in DOMAIN putHist
                       THEN [putHist[k] EXCEPT
                               !.again = @ \/ (\E p \in issued : p.key = k)]
                       ELSE [first |-> (CHOOSE p \in fresh : p.key = k).value,
                             again |-> FALSE]]
  /\ UNCHANGED <<dryrun, kv, inflight, xvars>>

\* one request to /github, handled to its end
GithubWebHook ==
  /\ running
  /\ \E req \in GithubRequests :
       \E idOut \in IdOutcomesFor(req) :
         \E sendOut \in SendOutcomesFor(req) :
           HandlerDone(req, githubWebHook(dryrun, kv, db, gh_cache, req, idOut, sendOut))

\* one request to /mailgun, handled to its end
MailgunWebHook ==
  /\ running
  /\ \E req \in MailgunRequests :
       \E iterOk \in (IF kv = "nil" THEN {TRUE} ELSE BOOLEAN) :
         HandlerDone(req, mailgunWebHook(dryrun, kv, db, gh_cache, req, iterOk))

\* a cache entry reaches its expiration (24 hours): Get no longer finds it
CacheExpire ==
  /\ running
  /\ \E l \in DOMAIN gh_cache :
       gh_cache' = [x \in DOMAIN gh_cache \ {l} |-> gh_cache[x]]
  /\ UNCHANGED <<running, dryrun, kv, db, last, putHist, inflight, xvars>>

\* the process is started again after a log.Fatal: main runs as before, on the same file
Restart ==
  /\ ~running
  /\ running' = TRUE
  /\ gh_cache' = Empty
  /\ kv' = "nil"
  /\ UNCHANGED <<dryrun, db, last, putHist, inflight, xvars>>

Next == GithubWebHook \/ MailgunWebHook \/ CacheExpire \/ Restart

Spec == Init /\ [][Next]_vars

(***************************************************************************)
(* The extraction specification: extractEmailFromIssue on its own.         *)
(***************************************************************************)
\* the gateway is not running in the extraction specification
GatewayIdle ==
  /\ running = FALSE /\ dryrun = FALSE /\ kv = "nil" /\ db = Empty /\ gh_cache = Empty
  /\ last = [Quiet EXCEPT !.term = "none"] @@ [req |-> NoReq] /\ putHist = Empty
  /\ inflight = NoneInFlight

\* before extractEmailFromIssue has been called
InitExtract == GatewayIdle /\ xbody = <<>> /\ xres = ExtractPanic /\ xdone = FALSE

\* the call of extractEmailFromIssue on an issue body
Extract ==
  /\ xdone = FALSE
  /\ \E b \in Bodies :
       /\ xbody' = b
       /\ xres' = extractEmailFromIssue(b)
  /\ xdone' = TRUE
  /\ UNCHANGED <<gvars, inflight>>

SpecExtract == InitExtract /\ [][Extract]_vars

(***************************************************************************)
(* The race specification: handlers of several requests at the store at    *)
(* the same time. net/http runs every request in a goroutine of its own;   *)
(* the steps are the calls through the package-level kv: kv.Put of         *)
(* githubWebHook and kv.GetKeys with the kv.Get of each key of             *)
(* emailToComment.                                                         *)
(***************************************************************************)
\* the server is listening, with some key/value file, and no request is in flight
InitRace ==
  /\ running = TRUE /\ dryrun = FALSE /\ kv = "nil" /\ db \in Stores /\ gh_cache = Empty
  /\ last = [Quiet EXCEPT !.term = "none"] @@ [req |-> NoReq] /\ putHist = Empty
  /\ inflight = NoneInFlight
  /\ xbody = <<>> /\ xres = ExtractPanic /\ xdone = FALSE

\* githubWebHook, after mg.Send returned the id key for issue value: before kv.Put
RaceArrivePut(h) ==
  /\ inflight[h].pc = "idle"
  /\ \E k \in MsgIds, n \in Issues :
       inflight' = [inflight EXCEPT ![h] = [Idle EXCEPT !.pc = "put", !.op = "put",
                                                        !.key = k, !.value = n]]
  /\ UNCHANGED <<running, dryrun, kv, db, gh_cache, last, putHist, xvars>>

\* emailToComment for an e-mail whose In-Reply-To is key: before kv.GetKeys
RaceArriveGet(h) ==
  /\ inflight[h].pc = "idle"
  /\ \E k \in MsgIds :
       inflight' = [inflight EXCEPT ![h] = [Idle EXCEPT !.pc = "keys", !.op = "get",
                                                        !.key = k]]
  /\ UNCHANGED <<running, dryrun, kv, db, gh_cache, last, putHist, xvars>>

\* kv.Put(response, &comment.Issue.Number)
RacePut(h) ==
  /\ inflight[h].pc = "put"
  /\ LET p == kvPut(kv, db, inflight[h].key, inflight[h].value)
     IN  /\ db' = p.store
         /\ inflight' = [inflight EXCEPT ![h].pc = IF p.ok THEN "done" ELSE "panic"]
  /\ UNCHANGED <<running, dryrun, kv, gh_cache, last, putHist, xvars>>

\* kv.GetKeys("", -1) and kv.Get of each key: got is the value read for the key of
\* the e-mail, 0 when the key is not there
RaceGetKeys(h) ==
  /\ inflight[h].pc = "keys"
  /\ LET g == kvGetKeys(kv, db)
     IN  inflight' = [inflight EXCEPT
                        ![h].pc = IF g.ok THEN "done" ELSE "panic",
                        ![h].got = IF g.ok /\ inflight[h].key \in g.keys
                                   THEN db[inflight[h].key] ELSE 0]
  /\ UNCHANGED <<running, dryrun, kv, db, gh_cache, last, putHist, xvars>>

\* the request is over: the response was written, or net/http recovered the panic
RaceLeave(h) ==
  /\ inflight[h].pc \in {"done", "panic"}
  /\ inflight' = [inflight EXCEPT ![h] = Idle]
  /\ UNCHANGED <<running, dryrun, kv, db, gh_cache, last, putHist, xvars>>

NextRace ==
  \E h \in Handlers :
    RaceArrivePut(h) \/ RaceArriveGet(h) \/ RacePut(h) \/ RaceGetKeys(h) \/ RaceLeave(h)

SpecRace == InitRace /\ [][NextRace]_vars
(***************************************************************************)
(* Properties.                                                             *)
(***************************************************************************)
\* the elements of a sequence
Range(q) == {q[i] : i \in DOMAIN q}

\* the text of a body after the first occurrence of the marker (the marker is there)
AfterMarker(b) == Slice(b, Index(b, Marker) + Len(Marker), Len(b))

\* the marker is there and some closing tag after it has a quote between the two
QuoteBeforeSomeClose(b) ==
  /\ Index(b, Marker) >= 0
  /\ \E c \in 0..Len(AfterMarker(b)) :
       /\ OccursAt(AfterMarker(b), CloseTag, c)
       /\ \E q \in 0..(c - 1) : OccursAt(AfterMarker(b), Quote, q)

\* the marker is there and a quote comes before the next closing tag after it
QuoteBeforeNextClose(b) ==
  /\ Index(b, Marker) >= 0
  /\ Index(AfterMarker(b), CloseTag) >= 0
  /\ Index(AfterMarker(b), Quote) >= 0
  /\ Index(AfterMarker(b), Quote) < Index(AfterMarker(b), CloseTag)

\* the text between the first marker and the next quote
UpToQuote(b) == Slice(AfterMarker(b), 0, Index(AfterMarker(b), Quote))

\* the last request was an e-mail webhook that reached the reading of its form fields
EmailParsed ==
  last.req.kind = "mailgun" /\ last.req.method = "POST" /\ last.req.formOk

\* ... and its three fields are there and not empty
EmailWellFormed ==
  /\ EmailParsed
  /\ last.req.from \notin {Missing, ""}
  /\ last.req.html \notin {Missing, ""}
  /\ last.req.irt \notin {Missing, ""}

\* q is a tracker event that reached the test of its action
CommentEvent(q) ==
  /\ q.kind = "github" /\ q.method = "POST" /\ q.event = "issue_comment"
  /\ q.ctypeJson /\ q.readOk /\ q.jsonOk

\* the handler answered with a success status
Succeeded(l) == l.term = "responded" /\ l.status \in 200..299

\* the handler answered with a client-error status
ClientError(l) == l.term = "responded" /\ l.status \in 400..499

\* the handler answered with an error status
Rejected(l) == l.term = "responded" /\ l.status \in 400..599

\* C1: an e-mail webhook (not in dry-run) whose In-Reply-To is a key of the store, with
\* issue number n, leads to a tracker comment on issue n and on no other issue.
C1_CommentOnCorrelatedIssue ==
  (EmailWellFormed /\ ~dryrun /\ last.req.irt \in DOMAIN db)
     => {c.issue : c \in Range(last.comments)} = {db[last.req.irt]}

\* C2: with dry-run disabled, once the handler of a comment-created event for issue n
\* has finished after a send that returned the (so far unknown) message id m, the
\* store holds (m, n).
C2_SendIsCorrelated ==
  (CommentEvent(last.req) /\ last.req.action = "created" /\ ~dryrun)
     => \A s \in Range(last.sent) :
          (s.answer \in DOMAIN putHist /\ ~putHist[s.answer].again)
             => (s.answer \in DOMAIN db /\ db[s.answer] = last.req.number)

\* C3: the mapping is write-once: after put(k, v1) on an absent key and a later
\* put(k, v2), the store holds v1 for k.
C3_WriteOnce ==
  \A k \in DOMAIN putHist :
     putHist[k].again => (k \in DOMAIN db /\ db[k] = putHist[k].first)

\* C4: an e-mail webhook whose In-Reply-To is not a key of the store is rejected with
\* an error, and no tracker call (reading an issue, creating a comment) is made for it.
C4_UnknownReplyRejected ==
  (EmailWellFormed /\ last.req.irt \notin DOMAIN db)
     => (Rejected(last) /\ last.issueGets = <<>> /\ last.comments = <<>>)

\* C5: in dry-run, a well-formed comment-created event is answered with success,
\* without a send and without a write to the store.
C5_DryRunSucceeds ==
  (dryrun /\ CommentEvent(last.req) /\ last.req.action = "created"
     /\ QuoteBeforeNextClose(BodyText(last.req.body)))
     => (Succeeded(last) /\ last.sent = <<>> /\ last.puts = <<>>)

\* C6: no webhook request ends the service: after any sequence of webhooks the
\* process is still running.
C6_ServiceSurvives == running

\* C7: a tracker event whose action is not "created" is answered with success and
\* causes no identity lookup, no send and no change of the store.
C7_IgnoredAction ==
  [][(CommentEvent(last'.req) /\ last'.req.action # "created")
        => (/\ Succeeded(last')
            /\ last'.lookups = <<>> /\ last'.sent = <<>> /\ last'.puts = <<>>
            /\ db' = db)]_vars

\* C7, reached: an edited comment was answered with 200 while the store has entries
C7_Witness ==
  /\ CommentEvent(last.req) /\ last.req.action = "edited"
  /\ last.status = 200 /\ db # Empty

\* C8 as stated: whenever the marker is followed by some closing tag with a quote in
\* between, the result is the text between the first marker and the next quote.
C8_SomeCloseTag ==
  (xdone /\ QuoteBeforeSomeClose(xbody)) => (xres.ok /\ xres.email = UpToQuote(xbody))

\* C8, amended: whenever a quote comes between the first marker and the next closing
\* tag after it, the result is the text between the first marker and the next quote.
C8_NextCloseTag ==
  (xdone /\ QuoteBeforeNextClose(xbody)) => (xres.ok /\ xres.email = UpToQuote(xbody))

\* C8, reached: a body with text before its contact block gave the block's address
C8_Witness ==
  /\ xdone /\ QuoteBeforeNextClose(xbody) /\ Index(xbody, Marker) > 0
  /\ xres.ok /\ xres.email = Addr

\* the marker is absent, or no quote follows it before the closing tag
MalformedBody(b) == Index(b, Marker) = -1 \/ ~QuoteBeforeNextClose(b)

\* C9: a comment-created event whose issue body is malformed (and whose author's name
\* was resolved) sends no e-mail and writes no correlation.
C9_MalformedBodyNotDelivered ==
  (CommentEvent(last.req) /\ last.req.action = "created"
     /\ MalformedBody(BodyText(last.req.body))
     /\ \A l \in Range(last.lookups) : l.answer \in Names)
     => (last.sent = <<>> /\ last.puts = <<>>)

\* C10: an e-mail webhook with From, stripped-html or In-Reply-To missing or empty is
\* answered with a client error, and no tracker call is made.
C10_MissingFieldRejected ==
  (EmailParsed /\ ~EmailWellFormed)
     => (ClientError(last) /\ last.issueGets = <<>> /\ last.comments = <<>>)
\* C11: in dry-run no handler contacts the identity provider, the e-mail provider
\* or the tracker API.
C11_DryRunContactsNobody ==
  dryrun => (/\ last.lookups = <<>> /\ last.sent = <<>>
             /\ last.issueGets = <<>> /\ last.comments = <<>>)

\* C12: a request during which an identity lookup or a send failed is answered with
\* a server-error response.
C12_UpstreamFailureIs5xx ==
  ((\E l \in Range(last.lookups) : l.answer = IdErr)
     \/ (\E m \in Range(last.sent) : m.answer = SendErr))
     => (last.term = "responded" /\ last.status \in 500..599)

\* C16: no handler uses the package-level store handle while it is nil.
C16_StoreHandleOpened == ~last.nilKv

\* C18: one request issues at most one send and at most one createComment, whether
\* or not the call fails.
C18_NoRetry == Len(last.sent) <= 1 /\ Len(last.comments) <= 1

\* C18, reached: a send failed and it was the only send of its request
C18_Witness ==
  /\ CommentEvent(last.req) /\ last.req.action = "created"
  /\ Len(last.sent) = 1 /\ last.sent[1].answer = SendErr
\* a step in which a handler ran (a restart needs a dead process, an expiration
\* takes an entry out of the cache)
HandlerStep ==
  /\ running
  /\ ~running' \/ \A l \in DOMAIN gh_cache : l \in DOMAIN gh_cache' /\ gh_cache'[l] = gh_cache[l]

\* the handler called nobody and wrote nothing
NoCalls(l) ==
  /\ l.lookups = <<>> /\ l.sent = <<>> /\ l.issueGets = <<>>
  /\ l.comments = <<>> /\ l.puts = <<>>

\* C15: the store changes only by a comment-created request, not in dry-run, whose
\* send succeeded: the new entry is (the id the send returned, the issue number of
\* the event); nothing else adds an entry and no entry is ever removed.
C15_OnlyDeliveriesWrite ==
  [][/\ \A k \in DOMAIN db : k \in DOMAIN db'
     /\ \A k \in DOMAIN db' :
          (k \notin DOMAIN db \/ db'[k] # db[k])
             => (/\ ~dryrun /\ CommentEvent(last'.req) /\ last'.req.action = "created"
                 /\ \E m \in Range(last'.sent) : m.answer = k /\ k \in MsgIds
                 /\ db'[k] = last'.req.number)]_vars

\* C15, reached: with entries in the store, a send failed, and the entries are there
C15_Witness ==
  /\ db # Empty /\ CommentEvent(last.req) /\ last.req.action = "created"
  /\ ~dryrun /\ \E m \in Range(last.sent) : m.answer = SendErr

\* C17: getNameForUser asks the identity provider only when the login has no
\* unexpired cache entry; a hit gives the cached name without a lookup; a successful
\* lookup puts the name into the cache, a failed one puts nothing there.
C17_CacheBeforeLookup ==
  [][(HandlerStep /\ CommentEvent(last'.req) /\ last'.req.action = "created")
        => IF last'.req.login \in DOMAIN gh_cache
           THEN /\ last'.lookups = <<>>
                /\ \A m \in Range(last'.sent) : m.from = gh_cache[last'.req.login]
           ELSE /\ Len(last'.lookups) = 1
                /\ last'.lookups[1].login = last'.req.login
                /\ IF last'.lookups[1].answer \in Names
                   THEN /\ \A m \in Range(last'.sent) : m.from = last'.lookups[1].answer
                        /\ running' => /\ last'.req.login \in DOMAIN gh_cache'
                                       /\ gh_cache'[last'.req.login] = last'.lookups[1].answer
                   ELSE last'.req.login \notin DOMAIN gh_cache']_vars

\* C17, reached: a comment by a cached author was sent under the cached name, with
\* no lookup
C17_Witness ==
  /\ CommentEvent(last.req) /\ last.req.action = "created"
  /\ last.req.login \in DOMAIN gh_cache /\ last.lookups = <<>>
  /\ \E m \in Range(last.sent) : m.from = gh_cache[last.req.login]

\* the last request was a POST to /github with another event type than issue_comment
OtherEvent(l) ==
  l.req.kind = "github" /\ l.req.method = "POST" /\ l.req.event # "issue_comment"

\* C19 as stated: an event of another type than issue_comment is answered with
\* success and causes no lookup, no send and no put.
C19_UnsupportedIsSuccess == OtherEvent(last) => (Succeeded(last) /\ NoCalls(last))

\* C19, amended: an event of another type than issue_comment causes no lookup, no
\* send and no change of the store; a ping is answered with 200, any other type
\* with 400.
C19_UnsupportedIsDropped ==
  [][OtherEvent(last')
        => (/\ last'.term = "responded"
            /\ last'.status = (IF last'.req.event = "ping" THEN 200 ELSE 400)
            /\ NoCalls(last')
            /\ db' = db)]_vars

\* C19, reached: a push event was answered with 400 while the store has entries
C19_Witness ==
  OtherEvent(last) /\ last.req.event = "push" /\ last.status = 400 /\ db # Empty

\* C20: a request whose method is not POST is answered with 405 by either handler,
\* with no call to any collaborator and with the store and the cache unchanged.
C20_NotPostIs405 ==
  [][(HandlerStep /\ last'.req.kind # "none" /\ last'.req.method # "POST")
        => (/\ last'.term = "responded" /\ last'.status = 405
            /\ NoCalls(last')
            /\ db' = db /\ gh_cache' = gh_cache)]_vars

\* C20, reached: a GET to /mailgun was answered with 405 while the store and the
\* cache have entries
C20_Witness ==
  /\ last.req.kind = "mailgun" /\ last.req.method = "GET" /\ last.status = 405
  /\ db # Empty /\ gh_cache # Empty
\* C13: of handlers at the store at the same time, every put ends with its key stored
\* and every get ends with NotFound or with a value that is stored for its key.
C13_RaceResolves ==
  \A h \in Handlers :
     /\ (inflight[h].op = "put" /\ inflight[h].pc \notin {"put"})
           => (inflight[h].pc = "done" /\ inflight[h].key \in DOMAIN db)
     /\ (inflight[h].op = "get" /\ inflight[h].pc \notin {"keys"})
           => (/\ inflight[h].pc = "done"
               /\ inflight[h].got # 0
                     => (inflight[h].key \in DOMAIN db
                         /\ inflight[h].got = db[inflight[h].key]))

\* C14: when the process is started again, at most one mapping for which a handler
\* called kv.Put is missing from the store.
C14_AtMostOneLost ==
  [][(~running /\ running')
        => Cardinality({k \in DOMAIN putHist : k \notin DOMAIN db'}) <= 1]_vars
====
